---- MODULE Spec2Model ----
(***************************************************************************)
(* Model of rive-rs: the Artboard wrapper (rive-rs/src/artboard/mod.rs)    *)
(* and the viewer's event loop (examples/viewer/src/main.rs).              *)
(*                                                                         *)
(* Three specifications share the variables:                               *)
(*   SpecOwn    the ownership graph: Files, Artboards, shared references   *)
(*              dropped by different threads;                              *)
(*   SpecScene  one bare Artboard used through the Scene trait by a host;  *)
(*   Spec       the viewer's event loop.                                   *)
(***************************************************************************)
EXTENDS Integers, Sequences, FiniteSets, TLC

\* ------------------------------------------------------------------ bounds
MaxFiles == 1
MaxArtboards == 2
MaxHandles == 3
MaxNest == 1
MaxLoads == 2
MaxKeys == 1
MaxScroll == 1

\* ----------------------------------------------------------- rational numbers
\* f32 values are modelled as exact fractions <<numerator, denominator>>,
\* denominator > 0, in lowest terms.
Abs(x) == IF x < 0 THEN -x ELSE x

RECURSIVE Gcd(_, _)
Gcd(a, b) == IF b = 0 THEN a ELSE Gcd(b, a % b)

Rat(n, d) ==
    LET g == Gcd(Abs(n), Abs(d))
        s == IF d < 0 THEN -1 ELSE 1
    IN  <<(s * n) \div g, (s * d) \div g>>

RZero == <<0, 1>>
ROne == <<1, 1>>
RInt(n) == <<n, 1>>
RMul(a, b) == Rat(a[1] * b[1], a[2] * b[2])
RDiv(a, b) == Rat(a[1] * b[2], a[2] * b[1])
RAdd(a, b) == Rat(a[1] * b[2] + b[1] * a[2], a[2] * b[2])
RSub(a, b) == Rat(a[1] * b[2] - b[1] * a[2], a[2] * b[2])
RNeg(a) == <<-a[1], a[2]>>
RLess(a, b) == a[1] * b[2] < b[1] * a[2]
RMin(a, b) == IF RLess(b, a) THEN b ELSE a

\* ------------------------------------------------------------------- UTF-8
\* core::str::from_utf8: whether a byte sequence is well-formed UTF-8.
IsCont(b) == b >= 128 /\ b <= 191

RECURSIVE from_utf8_ok(_)
from_utf8_ok(bytes) ==
    IF bytes = <<>> THEN TRUE
    ELSE LET b == Head(bytes)
             n == Len(bytes)
             rest(m) == SubSeq(bytes, m + 1, n)
         IN  IF b < 128 THEN from_utf8_ok(rest(1))
             ELSE IF b >= 194 /\ b <= 223
                  THEN n >= 2 /\ IsCont(bytes[2]) /\ from_utf8_ok(rest(2))
             ELSE IF b >= 224 /\ b <= 239
                  THEN /\ n >= 3
                       /\ IsCont(bytes[2]) /\ IsCont(bytes[3])
                       /\ (b = 224 => bytes[2] >= 160)
                       /\ (b = 237 => bytes[2] <= 159)
                       /\ from_utf8_ok(rest(3))
             ELSE IF b >= 240 /\ b <= 244
                  THEN /\ n >= 4
                       /\ IsCont(bytes[2]) /\ IsCont(bytes[3]) /\ IsCont(bytes[4])
                       /\ (b = 240 => bytes[2] >= 144)
                       /\ (b = 244 => bytes[2] <= 143)
                       /\ from_utf8_ok(rest(4))
             ELSE FALSE

\* ------------------------------------------------------------------ assets
\* The byte buffers a host may load.  An asset is what the engine parses out
\* of the bytes: whether they parse at all, and the artboards of the file
\* (name bytes, intrinsic size, whether a default state machine exists).
NameA == <<65>>
NameE == <<195, 169>>
NameBad == <<65, 255>>

Ab(name, w, ht, sm) == [name |-> name, width |-> w, height |-> ht, has_sm |-> sm]

Assets ==
    << [parses |-> FALSE, artboards |-> <<>>],
       [parses |-> TRUE,  artboards |-> <<>>],
       [parses |-> TRUE,  artboards |-> <<Ab(NameA, 50, 50, FALSE)>>],
       [parses |-> TRUE,  artboards |-> <<Ab(NameE, 100, 50, TRUE), Ab(NameA, 50, 50, FALSE)>>],
       [parses |-> TRUE,  artboards |-> <<Ab(NameBad, 50, 100, FALSE)>>] >>

AssetIds == 1..Len(Assets)

\* Handle: Default | Index(n) | Name(s); a Name is a &str, so valid UTF-8.
Handles ==
    {[tag |-> "Default"]}
    \cup {[tag |-> "Index", index |-> n] : n \in 0..2}
    \cup {[tag |-> "Name", name |-> s] : s \in {NameA, NameE, <<66>>}}

NULL == 0

\* --------------------------------------------------------------- variables
VARIABLES
    \* ownership graph (engine resources and the wrappers' strong counts)
    file_asset,     \* file id -> asset id parsed into it (0: not created)
    file_rc,        \* file id -> strong count of its Arc<FileInner>
    file_released,  \* file id -> times the engine released the raw file
    art_file,       \* artboard id -> ArtboardInner._file (0: not created)
    art_raw,        \* artboard id -> ArtboardInner.raw_artboard
    art_rc,         \* artboard id -> strong count of its Arc<ArtboardInner>
    art_released,   \* artboard id -> calls of rive_rs_artboard_instance_release
    art_clones,     \* artboard id -> whether its Arc was ever cloned (history)
    file_held,      \* file id -> File handles the host holds
    art_held,       \* artboard id -> Arc<ArtboardInner> handles held by threads
    in_drop,        \* threads inside a drop: stage -> object id -> how many
    last_call,      \* the library call just made and its outcome (history)
    fault,          \* "none", or the panic that ended the program
    \* a Scene, its Viewport and the renderer it draws into
    scene,          \* the Scene in use (the driver's Option<Box<dyn Scene>>)
    viewport,       \* Viewport: width, height, inverse_view_transform
    depth,          \* state_push calls minus state_pop calls on the renderer
    pc,             \* the statement in flight ("idle": between calls/events)
    stack,          \* return addresses of the calls in flight
    call_log,       \* statements advance_and_maybe_draw has run, in order
    entry,          \* values recorded at the entry of the calls in flight, and
                    \* what advance_and_apply and the call itself returned
    locals,         \* view_transform and inverse_view_transform of the call
    \* the viewer's event loop (the locals of main that the closure captures)
    render_state,   \* Option<RenderState>: [some, window]
    cached_window,  \* Option<Window>: 0 for None, else the window
    renderer,       \* Option<vello::Renderer>: whether it is Some
    windows_built,  \* windows WindowBuilder has built (history)
    mouse_pos,      \* the last cursor position
    scroll_delta,
    h, j, k,        \* key presses counted: the instance grid is (1+2h) x (1+k+j)
    control_flow,   \* winit's ControlFlow: "Poll", "Wait" or "Exit"
    loop_i, loop_j  \* the loop variables i and j of the frame in flight

own_vars == <<file_asset, file_rc, file_released, art_file, art_raw, art_rc,
              art_released, art_clones>>

held_vars == <<file_held, art_held, in_drop>>

scene_vars == <<scene, viewport, depth, pc, stack, call_log, entry, locals>>

driver_vars == <<render_state, cached_window, renderer, windows_built, mouse_pos,
                 scroll_delta, h, j, k, control_flow, loop_i, loop_j>>

vars == <<own_vars, held_vars, last_call, fault, scene_vars, driver_vars>>

FileIds == DOMAIN file_asset
ArtIds == DOMAIN art_file

NoCall == [op |-> "none", asset |-> 0, handle |-> [tag |-> "Default"],
           raw |-> NULL, result |-> "None", seq |-> 0]

\* ----------------------------------------------------- the engine (FFI side)
\* rive_rs_instantiate_artboard: the out-parameter for an optional index.
rive_rs_instantiate_artboard(asset, has_index, index) ==
    IF ~has_index
    THEN IF Len(asset.artboards) > 0 THEN 1 ELSE NULL
    ELSE IF index < Len(asset.artboards) THEN index + 1 ELSE NULL

\* rive_rs_instantiate_artboard_by_name: the first artboard of that name.
rive_rs_instantiate_artboard_by_name(asset, name) ==
    LET hits == {n \in 1..Len(asset.artboards) : asset.artboards[n].name = name}
    IN  IF hits = {} THEN NULL ELSE CHOOSE n \in hits : \A m \in hits : n <= m

\* File::new: Some(File) when the bytes parse.
File_new_ok(asset) == asset.parses

\* --------------------------------------------------- Artboard::instantiate
\* The match on the handle: the raw artboard the engine wrote.
instantiate_raw(asset, handle) ==
    CASE handle.tag = "Default" -> rive_rs_instantiate_artboard(asset, FALSE, 0)
      [] handle.tag = "Index"   -> rive_rs_instantiate_artboard(asset, TRUE, handle.index)
      [] handle.tag = "Name"    -> rive_rs_instantiate_artboard_by_name(asset, handle.name)

\* raw_artboard.map(..): Some exactly for a non-null raw artboard.
instantiate_result_WrapsNull(raw) == "Some"

instantiate_result(raw) == IF raw # NULL THEN "Some" ELSE "None"

\* Arc::clone / Arc::drop on a strong count.
ArcClone(rc) == rc + 1
ArcDrop(rc) == rc - 1

\* The File's strong count after instantiate: _file: file.as_inner().clone()
\* is evaluated inside the map closure, so only for a non-null raw artboard.
instantiate_file_rc_Borrowed(rc, raw) == rc

instantiate_file_rc_EagerClone(rc, raw) == ArcClone(rc)

instantiate_file_rc(rc, raw) == IF raw # NULL THEN ArcClone(rc) ELSE rc

\* Whether a drop of one Arc<ArtboardInner> handle runs ArtboardInner::drop:
\* the handle is Artboard.inner, so only when it held the last strong count.
ArtboardInner_dropped_PerHandle(prev) == prev >= 1

ArtboardInner_dropped(prev) == prev = 1

\* The destruction of an ArtboardInner: Drop::drop, which releases the raw
\* artboard, runs first; the fields (here _file) are dropped after it.
ArtboardInner_drop_order_FieldFirst == <<"field", "release">>

ArtboardInner_drop_order == <<"release", "field">>

\* Whether a drop of one Arc<FileInner> runs FileInner's destructor.
FileInner_dropped(prev) == prev = 1

\* ------------------------------------------------- Scene, Viewport, renderer
NoScene == [kind |-> "none", art |-> 0, asset |-> 0, raw |-> NULL]

Identity6 == <<ROne, RZero, RZero, ROne, RZero, RZero>>
Zero6 == <<RZero, RZero, RZero, RZero, RZero, RZero>>

\* Viewport::default().
Viewport_default == [width |-> 0, height |-> 0, inverse_view_transform |-> Zero6]

\* Viewport::resize.
Viewport_resize(vp, w, ht) == [vp EXCEPT !.width = w, !.height = ht]

\* rive_rs_artboard_instance_transforms: fit the content (cw x ch) into the
\* surface (sw x sh) proportionally and centred; a transform that cannot be
\* inverted (a surface without area) has the identity for inverse.
rive_rs_artboard_instance_transforms(cw, ch, sw, sh) ==
    LET sc == RMin(Rat(sw, cw), Rat(sh, ch))
        offx == RDiv(RSub(RInt(sw), RMul(RInt(cw), sc)), RInt(2))
        offy == RDiv(RSub(RInt(sh), RMul(RInt(ch), sc)), RInt(2))
    IN  [view_transform |-> <<sc, RZero, RZero, sc, offx, offy>>,
         inverse_view_transform |->
             IF sc = RZero THEN Identity6
             ELSE <<RDiv(ROne, sc), RZero, RZero, RDiv(ROne, sc),
                    RNeg(RDiv(offx, sc)), RNeg(RDiv(offy, sc))>>]

\* The artboard a Scene draws: what the engine holds behind raw_artboard.
SceneArtboard(sn) == Assets[sn.asset].artboards[sn.raw]

\* Scene::width, Scene::height: rive_rs_artboard_width / _height.
Scene_width(sn) == SceneArtboard(sn).width
Scene_height(sn) == SceneArtboard(sn).height

\* rive_rs_component_name: the name bytes as the file stores them.
rive_rs_component_name(sn) == SceneArtboard(sn).name

\* Scene::name: str::from_utf8(bytes).expect("component name is invalid UTF-8").
Scene_name(sn) ==
    IF from_utf8_ok(rive_rs_component_name(sn))
    THEN [result |-> "Ok", fault |-> "none"]
    ELSE [result |-> "panic", fault |-> "panic: component name is invalid UTF-8"]

\* Scene::loop, Scene::is_translucent, Scene::duration of a bare Artboard.
Artboard_loop_FromAnimation == "Loop"

Artboard_loop == "OneShot"
Artboard_is_translucent == FALSE
Artboard_duration == "None"

\* Artboard::advance_and_apply: rive_rs_artboard_advance, then true.
Artboard_advance_and_apply == TRUE

\* The statements of advance_and_maybe_draw, each with the one that follows.
\* "draw" enters the engine's draw, which returns to the statement after it.
aamd_next_AdvanceFirst(stmt) ==
    CASE stmt = "instance_transforms" -> "advance_and_apply"
      [] stmt = "advance_and_apply"   -> "store_inverse"
      [] stmt = "store_inverse"       -> "state_push"
      [] stmt = "state_push"          -> "transform"
      [] stmt = "transform"           -> "draw"
      [] stmt = "draw"                -> "state_pop"
      [] stmt = "state_pop"           -> "return"

aamd_next_NoDraw(stmt) ==
    CASE stmt = "instance_transforms" -> "store_inverse"
      [] stmt = "store_inverse"       -> "advance_and_apply"
      [] stmt = "advance_and_apply"   -> "state_push"
      [] stmt = "state_push"          -> "transform"
      [] stmt = "transform"           -> "state_pop"
      [] stmt = "draw"                -> "state_pop"
      [] stmt = "state_pop"           -> "return"

aamd_next_NoPop(stmt) ==
    CASE stmt = "instance_transforms" -> "store_inverse"
      [] stmt = "store_inverse"       -> "advance_and_apply"
      [] stmt = "advance_and_apply"   -> "state_push"
      [] stmt = "state_push"          -> "transform"
      [] stmt = "transform"           -> "draw"
      [] stmt = "draw"                -> "return"
      [] stmt = "state_pop"           -> "return"

aamd_next(stmt) ==
    CASE stmt = "instance_transforms" -> "store_inverse"
      [] stmt = "store_inverse"       -> "advance_and_apply"
      [] stmt = "advance_and_apply"   -> "state_push"
      [] stmt = "state_push"          -> "transform"
      [] stmt = "transform"           -> "draw"
      [] stmt = "draw"                -> "state_pop"
      [] stmt = "state_pop"           -> "return"

\* What advance_and_maybe_draw stores on the viewport: of the two transforms
\* the engine wrote, the inverse.
aamd_stored_Forward(lc) == lc.view_transform

aamd_stored(lc) == lc.inverse_view_transform

\* The value advance_and_maybe_draw returns: true, whatever advance_and_apply
\* returned.
aamd_result(changed) == "true"

NoRenderState == [some |-> FALSE, window |-> 0]

NoEntry == [aamd |-> 0, draw |-> 0, open |-> 0, inverse |-> Zero6,
            changed |-> "none", ret |-> "none"]
NoLocals == [view_transform |-> Zero6, inverse_view_transform |-> Zero6]

InitDriverVars ==
    /\ render_state = NoRenderState
    /\ cached_window = 0
    /\ renderer = FALSE
    /\ windows_built = 0
    /\ mouse_pos = <<0, 0>>
    /\ scroll_delta = 0
    /\ h = 0 /\ j = 0 /\ k = 0
    /\ control_flow = "Poll"
    /\ loop_i = 0 /\ loop_j = 0

InitSceneVars ==
    /\ scene = NoScene
    /\ viewport = Viewport_default
    /\ depth = 0
    /\ pc = "idle"
    /\ stack = <<>>
    /\ call_log = <<>>
    /\ entry = NoEntry
    /\ locals = NoLocals

\* ------------------------------------------------------ SpecOwn: the host
\* The host's threads are anonymous: what matters is how many handles of each
\* object are held and how many threads are at each stage of a drop.
\*   drop_inner       the strong count reached 0: Drop for ArtboardInner is due
\*   drop_field       ArtboardInner::drop returned: the field _file is due
\*   drop_file_inner  a File's strong count reached 0: its destructor is due
NextFile == CHOOSE f \in FileIds : file_asset[f] = 0 /\ \A g \in 1..(f - 1) : file_asset[g] # 0
NextArt == CHOOSE a \in ArtIds : art_file[a] = 0 /\ \A b \in 1..(a - 1) : art_file[b] # 0
HasFreeFile == \E f \in FileIds : file_asset[f] = 0
HasFreeArt == \E a \in ArtIds : art_file[a] = 0

RECURSIVE SumOver(_, _)
SumOver(fn, S) == IF S = {} THEN 0 ELSE LET x == CHOOSE y \in S : TRUE IN fn[x] + SumOver(fn, S \ {x})

Handles_in_use ==
    SumOver(file_held, FileIds) + SumOver(art_held, ArtIds)
    + SumOver(in_drop.drop_inner, ArtIds) + SumOver(in_drop.drop_field, ArtIds)
    + SumOver(in_drop.drop_file_inner, FileIds)

HasFreeHandle == Handles_in_use < MaxHandles

Called(op, asset, handle, raw, result) ==
    [op |-> op, asset |-> asset, handle |-> handle, raw |-> raw,
     result |-> result, seq |-> 1 - last_call.seq]

InitOwnVars(nf, na) ==
    /\ file_asset = [f \in 1..nf |-> 0]
    /\ file_rc = [f \in 1..nf |-> 0]
    /\ file_released = [f \in 1..nf |-> 0]
    /\ art_file = [a \in 1..na |-> 0]
    /\ art_raw = [a \in 1..na |-> NULL]
    /\ art_rc = [a \in 1..na |-> 0]
    /\ art_released = [a \in 1..na |-> 0]
    /\ art_clones = [a \in 1..na |-> FALSE]

InitHeld(nf, na) ==
    /\ file_held = [f \in 1..nf |-> 0]
    /\ art_held = [a \in 1..na |-> 0]
    /\ in_drop = [drop_inner |-> [a \in 1..na |-> 0],
                  drop_field |-> [a \in 1..na |-> 0],
                  drop_file_inner |-> [f \in 1..nf |-> 0]]

InitOwn ==
    /\ InitOwnVars(MaxFiles, MaxArtboards)
    /\ InitHeld(MaxFiles, MaxArtboards)
    /\ last_call = NoCall
    /\ fault = "none"
    /\ InitSceneVars
    /\ InitDriverVars

\* A host thread loads a byte buffer: File::new(bytes).
OwnFileNew(c) ==
    /\ HasFreeFile /\ HasFreeHandle
    /\ IF File_new_ok(Assets[c])
       THEN /\ file_asset' = [file_asset EXCEPT ![NextFile] = c]
            /\ file_rc' = [file_rc EXCEPT ![NextFile] = 1]
            /\ file_held' = [file_held EXCEPT ![NextFile] = 1]
            /\ last_call' = Called("File::new", c, [tag |-> "Default"], NULL, "Some")
       ELSE /\ UNCHANGED <<file_asset, file_rc, file_held, driver_vars>>
            /\ last_call' = Called("File::new", c, [tag |-> "Default"], NULL, "None")
    /\ UNCHANGED <<file_released, art_file, art_raw, art_rc, art_released, art_clones,
                   art_held, in_drop, fault, scene_vars, driver_vars>>

\* A host thread calls Artboard::instantiate(&file, handle) on the File f.
OwnInstantiate(f, handle) ==
    /\ file_held[f] > 0
    /\ HasFreeArt /\ HasFreeHandle
    /\ LET raw == instantiate_raw(Assets[file_asset[f]], handle)
           res == instantiate_result(raw)
       IN  /\ file_rc' = [file_rc EXCEPT ![f] = instantiate_file_rc(file_rc[f], raw)]
           /\ last_call' = Called("instantiate", file_asset[f], handle, raw, res)
           /\ IF res = "Some"
              THEN /\ art_file' = [art_file EXCEPT ![NextArt] = f]
                   /\ art_raw' = [art_raw EXCEPT ![NextArt] = raw]
                   /\ art_rc' = [art_rc EXCEPT ![NextArt] = 1]
                   /\ art_held' = [art_held EXCEPT ![NextArt] = 1]
              ELSE UNCHANGED <<art_file, art_raw, art_rc, art_held, driver_vars>>
    /\ UNCHANGED <<file_asset, file_released, art_released, art_clones, file_held, in_drop, fault, scene_vars, driver_vars>>

\* A derived object takes a clone of the shared reference: as_inner().clone().
OwnClone(a) ==
    /\ art_held[a] > 0
    /\ HasFreeHandle
    /\ art_rc' = [art_rc EXCEPT ![a] = ArcClone(art_rc[a])]
    /\ art_clones' = [art_clones EXCEPT ![a] = TRUE]
    /\ art_held' = [art_held EXCEPT ![a] = @ + 1]
    /\ last_call' = NoCall
    /\ UNCHANGED <<file_asset, file_rc, file_released, art_file, art_raw, art_released,
                   file_held, in_drop, fault, scene_vars, driver_vars>>

\* A thread drops a handle of the Artboard a: the atomic fetch_sub of Arc::drop.
OwnDropArtboard(a) ==
    /\ art_held[a] > 0
    /\ art_held' = [art_held EXCEPT ![a] = @ - 1]
    /\ art_rc' = [art_rc EXCEPT ![a] = ArcDrop(art_rc[a])]
    /\ in_drop' = IF ArtboardInner_dropped(art_rc[a])
                  THEN [in_drop EXCEPT !.drop_inner[a] = @ + 1]
                  ELSE in_drop
    /\ last_call' = NoCall
    /\ UNCHANGED <<file_asset, file_rc, file_released, art_file, art_raw, art_released,
                   art_clones, file_held, fault, scene_vars, driver_vars>>

\* The host drops its File handle: the atomic fetch_sub of Arc::drop.
OwnDropFile(f) ==
    /\ file_held[f] > 0
    /\ file_held' = [file_held EXCEPT ![f] = @ - 1]
    /\ file_rc' = [file_rc EXCEPT ![f] = ArcDrop(file_rc[f])]
    /\ in_drop' = IF FileInner_dropped(file_rc[f])
                  THEN [in_drop EXCEPT !.drop_file_inner[f] = @ + 1]
                  ELSE in_drop
    /\ last_call' = NoCall
    /\ UNCHANGED <<file_asset, file_released, art_file, art_raw, art_rc, art_released,
                   art_clones, art_held, fault, scene_vars, driver_vars>>

\* One step of the destruction of the ArtboardInner a, leaving the threads
\* in the drop as idp says:
\*   "release"  Drop::drop: rive_rs_artboard_instance_release(raw_artboard)
\*   "field"    the drop of the field _file, an Arc<FileInner>
DestroyStep(a, step, idp) ==
    IF step = "release"
    THEN /\ art_released' = [art_released EXCEPT ![a] = @ + 1]
         /\ in_drop' = idp
         /\ UNCHANGED file_rc
    ELSE LET f == art_file[a]
         IN  /\ file_rc' = [file_rc EXCEPT ![f] = ArcDrop(file_rc[f])]
             /\ in_drop' = IF FileInner_dropped(file_rc[f])
                           THEN [idp EXCEPT !.drop_file_inner[f] = @ + 1]
                           ELSE idp
             /\ UNCHANGED art_released

\* Drop for ArtboardInner: the engine destructor of the raw artboard.
OwnDropInner(a) ==
    /\ in_drop.drop_inner[a] > 0
    /\ DestroyStep(a, ArtboardInner_drop_order[1],
                   [in_drop EXCEPT !.drop_inner[a] = @ - 1, !.drop_field[a] = @ + 1])
    /\ last_call' = NoCall
    /\ UNCHANGED <<file_asset, file_released, art_file, art_raw, art_rc,
                   art_clones, file_held, art_held, fault, scene_vars, driver_vars>>

\* After Drop::drop the fields are dropped: _file, an Arc<FileInner>.
OwnDropField(a) ==
    /\ in_drop.drop_field[a] > 0
    /\ DestroyStep(a, ArtboardInner_drop_order[2],
                   [in_drop EXCEPT !.drop_field[a] = @ - 1])
    /\ last_call' = NoCall
    /\ UNCHANGED <<file_asset, file_released, art_file, art_raw, art_rc,
                   art_clones, file_held, art_held, fault, scene_vars, driver_vars>>

\* FileInner's destructor: the engine releases the raw file.
OwnDropFileInner(f) ==
    /\ in_drop.drop_file_inner[f] > 0
    /\ file_released' = [file_released EXCEPT ![f] = @ + 1]
    /\ in_drop' = [in_drop EXCEPT !.drop_file_inner[f] = @ - 1]
    /\ last_call' = NoCall
    /\ UNCHANGED <<file_asset, file_rc, art_file, art_raw, art_rc, art_released,
                   art_clones, file_held, art_held, fault, scene_vars, driver_vars>>

NextOwn ==
    \/ \E c \in AssetIds : OwnFileNew(c)
    \/ \E f \in FileIds, handle \in Handles : OwnInstantiate(f, handle)
    \/ \E a \in ArtIds : OwnClone(a)
    \/ \E a \in ArtIds : OwnDropArtboard(a)
    \/ \E f \in FileIds : OwnDropFile(f)
    \/ \E a \in ArtIds : OwnDropInner(a)
    \/ \E a \in ArtIds : OwnDropField(a)
    \/ \E f \in FileIds : OwnDropFileInner(f)

SpecOwn == InitOwn /\ [][NextOwn]_vars

\* ------------------------------------------------- claims on the ownership
FileCreated(f) == file_asset[f] # 0
ArtCreated(a) == art_file[a] # 0
\* An Artboard is alive until its ArtboardInner has been destroyed.
ArtAlive(a) == ArtCreated(a) /\ art_released[a] = 0

\* C1: the engine resource of a File F is not released while the host's
\* reference to F or any Artboard instantiated from F is still alive: the
\* release count of F is 0 until all of them have been dropped (and it is
\* never released twice).
C1_FileOutlivesArtboards ==
    \A f \in FileIds :
        /\ file_released[f] <= 1
        /\ file_released[f] > 0 =>
              /\ file_held[f] = 0
              /\ \A a \in ArtIds : art_file[a] = f => ~ArtAlive(a) /\ art_held[a] = 0

\* C1 witness: the host's File handle is gone, an Artboard of the File is
\* still held, and the File's resource has not been released.
C1_Witness ==
    \E f \in FileIds, a \in ArtIds :
        /\ FileCreated(f) /\ art_file[a] = f
        /\ file_held[f] = 0
        /\ art_held[a] > 0
        /\ file_released[f] = 0

\* C2: rive_rs_artboard_instance_release runs exactly once per instantiated
\* Artboard, when the last shared reference to its ArtboardInner has been
\* dropped and not before, whatever the interleaving of the threads' drops:
\* never twice, never while a holder remains or the strong count is positive,
\* and never missed once the last holder's drop has run the destructor.
C2_ReleasedExactlyOnce ==
    \A a \in ArtIds :
        /\ art_released[a] <= 1
        /\ art_released[a] = 1 => ArtCreated(a) /\ art_held[a] = 0 /\ art_rc[a] = 0
        /\ (ArtCreated(a) /\ art_held[a] = 0 /\ in_drop.drop_inner[a] = 0)
              => art_released[a] = 1

\* C2 witness: an Artboard whose shared reference was cloned, every holder
\* has dropped, and the raw artboard was released once.
C2_Witness ==
    \E a \in ArtIds : art_clones[a] /\ art_held[a] = 0 /\ art_released[a] = 1

\* C6: instantiate with an index past the file's artboards, or with a name
\* no artboard of the file has, returns None and does not fault; it returns
\* Some exactly when the engine wrote a non-null raw artboard, and then the
\* new wrapper holds that raw artboard.
C6_AbsenceIsNone ==
    last_call.op = "instantiate" =>
        LET asset == Assets[last_call.asset]
            handle == last_call.handle
            names == {asset.artboards[n].name : n \in 1..Len(asset.artboards)}
        IN  /\ fault = "none"
            /\ (handle.tag = "Index" /\ handle.index >= Len(asset.artboards))
                  => last_call.result = "None"
            /\ (handle.tag = "Name" /\ handle.name \notin names)
                  => last_call.result = "None"
            /\ last_call.result = "Some" <=> last_call.raw # NULL
            /\ \A a \in ArtIds : ArtCreated(a) => art_raw[a] # NULL

\* C6 witness: an instantiate by an out-of-range index has returned None.
C6_Witness ==
    /\ last_call.op = "instantiate"
    /\ last_call.handle.tag = "Index"
    /\ last_call.handle.index >= Len(Assets[last_call.asset].artboards)
    /\ last_call.result = "None"

\* C7: an instantiate that returns None changes nothing: no wrapper is
\* created, no strong count of a File or Artboard changes, nothing is released.
C7_FailedInstantiateNoEffect ==
    [][(/\ last_call'.seq # last_call.seq
        /\ last_call'.op = "instantiate"
        /\ last_call'.result = "None")
       => UNCHANGED <<own_vars, held_vars, fault>>]_vars

\* C7 witness: an instantiate has just returned None on a File that is held.
C7_Witness ==
    /\ last_call.op = "instantiate"
    /\ last_call.result = "None"
    /\ \E f \in FileIds : file_held[f] > 0 /\ file_asset[f] = last_call.asset /\ file_rc[f] >= 1

\* C16: release order is child before parent.  In the step that releases a
\* File's engine resource, every Artboard instantiated from that File has
\* already had its own engine resource released: when the drop of the last
\* reference to an ArtboardInner also drops the last reference to its File,
\* rive_rs_artboard_instance_release runs strictly before the File's release.
C16_ChildReleasedBeforeParent ==
    [][\A f \in FileIds :
          file_released'[f] > file_released[f] =>
              \A a \in ArtIds : art_file[a] = f => art_released[a] >= 1]_vars

\* C16 witness: the host's File handle is gone, the last handle of the
\* Artboard was dropped and its raw artboard released; the ArtboardInner's
\* field _file, the last reference to the File, is about to be dropped and
\* the File is not released yet.
C16_Witness ==
    \E a \in ArtIds :
        /\ ArtCreated(a)
        /\ in_drop.drop_field[a] > 0
        /\ art_released[a] = 1
        /\ file_held[art_file[a]] = 0
        /\ file_rc[art_file[a]] = 1
        /\ file_released[art_file[a]] = 0

\* ---------------------------------------- Artboard::advance_and_maybe_draw
Running == fault = "none"
Logged(stmt) == Append(call_log, stmt)
InLog(stmt) == \E n \in 1..Len(call_log) : call_log[n] = stmt

\* The call itself: control enters the first statement, the caller resumes at
\* `back` when the call returns.
CallAamd(back) ==
    /\ pc' = "instance_transforms"
    /\ stack' = <<back>> \o stack
    /\ call_log' = <<>>
    /\ entry' = [entry EXCEPT !.aamd = depth, !.inverse = viewport.inverse_view_transform,
                              !.changed = "none", !.ret = "none"]
    /\ locals' = NoLocals

\* rive_rs_artboard_instance_transforms(raw, viewport.width, viewport.height, ..).
AamdInstanceTransforms ==
    /\ Running /\ pc = "instance_transforms"
    /\ locals' = rive_rs_artboard_instance_transforms(
                     Scene_width(scene), Scene_height(scene),
                     viewport.width, viewport.height)
    /\ call_log' = Logged(pc)
    /\ pc' = aamd_next(pc)
    /\ UNCHANGED <<own_vars, held_vars, last_call, fault, scene, viewport, depth, stack, entry, driver_vars>>

\* viewport.inverse_view_transform = inverse_view_transform.
AamdStoreInverse ==
    /\ Running /\ pc = "store_inverse"
    /\ viewport' = [viewport EXCEPT !.inverse_view_transform = aamd_stored(locals)]
    /\ call_log' = Logged(pc)
    /\ pc' = aamd_next(pc)
    /\ UNCHANGED <<own_vars, held_vars, last_call, fault, scene, depth, stack, entry, locals, driver_vars>>

\* if !self.advance_and_apply(elapsed) { // return false; }: the block is
\* empty, so either outcome goes on to the next statement.
AamdAdvanceAndApply ==
    /\ Running /\ pc = "advance_and_apply"
    /\ call_log' = Logged(pc)
    /\ entry' = [entry EXCEPT !.changed = IF Artboard_advance_and_apply THEN "true"
                                           ELSE "false"]
    /\ pc' = IF ~Artboard_advance_and_apply THEN aamd_next(pc) ELSE aamd_next(pc)
    /\ UNCHANGED <<own_vars, held_vars, last_call, fault, scene, viewport, depth, stack, locals, driver_vars>>

\* renderer.state_push().
AamdStatePush ==
    /\ Running /\ pc = "state_push"
    /\ depth' = depth + 1
    /\ call_log' = Logged(pc)
    /\ pc' = aamd_next(pc)
    /\ UNCHANGED <<own_vars, held_vars, last_call, fault, scene, viewport, stack, entry, locals, driver_vars>>

\* renderer.transform(&view_transform).
AamdTransform ==
    /\ Running /\ pc = "transform"
    /\ call_log' = Logged(pc)
    /\ pc' = aamd_next(pc)
    /\ UNCHANGED <<own_vars, held_vars, last_call, fault, scene, viewport, depth, stack, entry, locals, driver_vars>>

\* Scene::draw: control enters rive_rs_artboard_draw.
CallDraw(back) ==
    /\ pc' = "engine_draw"
    /\ stack' = <<back>> \o stack
    /\ entry' = [entry EXCEPT !.draw = depth, !.open = 0]

\* self.draw(renderer).
AamdDraw ==
    /\ Running /\ pc = "draw"
    /\ CallDraw(aamd_next(pc))
    /\ call_log' = Logged(pc)
    /\ UNCHANGED <<own_vars, held_vars, last_call, fault, scene, viewport, depth, locals, driver_vars>>

\* The engine's draw saves and restores the renderer state in nested pairs.
EngineSave ==
    /\ Running /\ pc = "engine_draw"
    /\ entry.open < MaxNest
    /\ depth' = depth + 1
    /\ entry' = [entry EXCEPT !.open = @ + 1]
    /\ UNCHANGED <<own_vars, held_vars, last_call, fault, scene, viewport, pc, stack, call_log, locals, driver_vars>>

EngineRestore ==
    /\ Running /\ pc = "engine_draw"
    /\ entry.open > 0
    /\ depth' = depth - 1
    /\ entry' = [entry EXCEPT !.open = @ - 1]
    /\ UNCHANGED <<own_vars, held_vars, last_call, fault, scene, viewport, pc, stack, call_log, locals, driver_vars>>

EngineDrawDone ==
    /\ Running /\ pc = "engine_draw"
    /\ entry.open = 0
    /\ pc' = "draw_return"
    /\ UNCHANGED <<own_vars, held_vars, last_call, fault, scene, viewport, depth, stack, call_log, entry, locals, driver_vars>>

\* Scene::draw returns to its caller.
DrawReturn ==
    /\ Running /\ pc = "draw_return"
    /\ pc' = Head(stack)
    /\ stack' = Tail(stack)
    /\ UNCHANGED <<own_vars, held_vars, last_call, fault, scene, viewport, depth, call_log, entry, locals, driver_vars>>

\* renderer.state_pop().
AamdStatePop ==
    /\ Running /\ pc = "state_pop"
    /\ depth' = depth - 1
    /\ call_log' = Logged(pc)
    /\ pc' = aamd_next(pc)
    /\ UNCHANGED <<own_vars, held_vars, last_call, fault, scene, viewport, stack, entry, locals, driver_vars>>

\* true: advance_and_maybe_draw returns to its caller.
AamdReturn ==
    /\ Running /\ pc = "return"
    /\ pc' = Head(stack)
    /\ stack' = Tail(stack)
    /\ entry' = [entry EXCEPT !.ret = aamd_result(entry.changed)]
    /\ UNCHANGED <<own_vars, held_vars, last_call, fault, scene, viewport, depth, call_log, locals, driver_vars>>

SceneSteps ==
    \/ AamdInstanceTransforms
    \/ AamdStoreInverse
    \/ AamdAdvanceAndApply
    \/ AamdStatePush
    \/ AamdTransform
    \/ AamdDraw
    \/ EngineSave
    \/ EngineRestore
    \/ EngineDrawDone
    \/ DrawReturn
    \/ AamdStatePop
    \/ AamdReturn

\* ------------------------------- SpecScene: a host using one bare Artboard
\* The surface sizes a host resizes its viewport to.
SurfaceSizes == {<<100, 100>>, <<200, 100>>}

\* The sizes the host of a bare Artboard gives its viewport: also sizes the
\* content does not fit by a whole factor.
HostSurfaceSizes == SurfaceSizes \cup {<<75, 100>>, <<30, 40>>}

BareArtboards ==
    {[kind |-> "artboard", art |-> 1, asset |-> c, raw |-> r] :
        c \in AssetIds, r \in 1..2} 

SceneDid(op, result) ==
    [op |-> op, asset |-> scene.asset, handle |-> [tag |-> "Default"],
     raw |-> scene.raw, result |-> result, seq |-> 0]

InitScene ==
    /\ scene \in {sn \in BareArtboards : sn.raw <= Len(Assets[sn.asset].artboards)}
    /\ file_asset = <<scene.asset>>
    /\ file_rc = <<1>>
    /\ file_released = <<0>>
    /\ art_file = <<1>>
    /\ art_raw = <<scene.raw>>
    /\ art_rc = <<1>>
    /\ art_released = <<0>>
    /\ art_clones = <<FALSE>>
    /\ file_held = <<0>>
    /\ art_held = <<1>>
    /\ in_drop = [drop_inner |-> <<0>>, drop_field |-> <<0>>, drop_file_inner |-> <<0>>]
    /\ last_call = NoCall
    /\ fault = "none"
    /\ viewport = Viewport_default
    /\ depth = 0
    /\ pc = "idle"
    /\ stack = <<>>
    /\ call_log = <<>>
    /\ entry = NoEntry
    /\ locals = NoLocals
    /\ InitDriverVars

HostIdle == Running /\ pc = "idle"

\* The host resizes the viewport.
HostResize(sz) ==
    /\ HostIdle
    /\ viewport' = Viewport_resize(viewport, sz[1], sz[2])
    /\ last_call' = SceneDid("resize", "Ok")
    /\ UNCHANGED <<own_vars, held_vars, fault, scene, depth, pc, stack, call_log, entry, locals, driver_vars>>

\* The host saves or restores the renderer state itself, around its own drawing.
HostStatePush ==
    /\ HostIdle
    /\ depth < MaxNest
    /\ depth' = depth + 1
    /\ last_call' = SceneDid("state_push", "Ok")
    /\ UNCHANGED <<own_vars, held_vars, fault, scene, viewport, pc, stack, call_log, entry, locals, driver_vars>>

HostStatePop ==
    /\ HostIdle
    /\ depth > 0
    /\ depth' = depth - 1
    /\ last_call' = SceneDid("state_pop", "Ok")
    /\ UNCHANGED <<own_vars, held_vars, fault, scene, viewport, pc, stack, call_log, entry, locals, driver_vars>>

\* The host calls scene.name().
HostName ==
    /\ HostIdle
    /\ last_call' = SceneDid("name", Scene_name(scene).result)
    /\ fault' = Scene_name(scene).fault
    /\ UNCHANGED <<own_vars, held_vars, scene_vars, driver_vars>>

\* The host calls scene.advance_and_apply(elapsed).
HostAdvanceAndApply ==
    /\ HostIdle
    /\ last_call' = SceneDid("advance_and_apply", IF Artboard_advance_and_apply THEN "true" ELSE "false")
    /\ UNCHANGED <<own_vars, held_vars, fault, scene_vars, driver_vars>>

\* The host calls scene.draw(renderer).
HostDraw ==
    /\ HostIdle
    /\ CallDraw("idle")
    /\ last_call' = SceneDid("draw", "Ok")
    /\ UNCHANGED <<own_vars, held_vars, fault, scene, viewport, depth, call_log, locals, driver_vars>>

\* The host calls scene.advance_and_maybe_draw(renderer, elapsed, viewport).
HostAdvanceAndMaybeDraw ==
    /\ HostIdle
    /\ CallAamd("idle")
    /\ last_call' = SceneDid("advance_and_maybe_draw", "true")
    /\ UNCHANGED <<own_vars, held_vars, fault, scene, viewport, depth, driver_vars>>

\* The host calls scene.r#loop().
HostLoop ==
    /\ HostIdle
    /\ last_call' = SceneDid("loop", Artboard_loop)
    /\ UNCHANGED <<own_vars, held_vars, fault, scene_vars, driver_vars>>

\* The host calls scene.duration().
HostDuration ==
    /\ HostIdle
    /\ last_call' = SceneDid("duration", Artboard_duration)
    /\ UNCHANGED <<own_vars, held_vars, fault, scene_vars, driver_vars>>

\* The host sends a pointer event: a bare Artboard ignores it.
HostPointer(kind) ==
    /\ HostIdle
    /\ last_call' = SceneDid(kind, "Ok")
    /\ UNCHANGED <<own_vars, held_vars, fault, scene_vars, driver_vars>>

NextScene ==
    \/ \E sz \in HostSurfaceSizes : HostResize(sz)
    \/ HostStatePush
    \/ HostStatePop
    \/ HostName
    \/ HostAdvanceAndApply
    \/ HostDraw
    \/ HostAdvanceAndMaybeDraw
    \/ HostLoop
    \/ HostDuration
    \/ \E kind \in {"pointer_down", "pointer_move", "pointer_up"} : HostPointer(kind)
    \/ SceneSteps

SpecScene == InitScene /\ [][NextScene]_vars

\* --------------------------------------------------- claims on the Scene
AamdOrder == <<"instance_transforms", "store_inverse", "advance_and_apply",
               "state_push", "transform", "draw", "state_pop">>

AamdInFlight == pc \in {"instance_transforms", "store_inverse", "advance_and_apply",
                        "state_push", "transform", "draw", "state_pop", "return"}
                \/ (pc \in {"engine_draw", "draw_return"} /\ Len(stack) = 2)

\* C3: within a call of advance_and_maybe_draw the statements run in the
\* order: transforms computed from the viewport's current width and height,
\* inverse stored on the viewport, advance_and_apply, state_push, transform,
\* draw, state_pop.  So once advance_and_apply has run, the viewport already
\* holds the inverse for its current size, also right after a resize.
C3_StoreBeforeAdvance ==
    /\ Len(call_log) <= Len(AamdOrder)
    /\ \A n \in 1..Len(call_log) : call_log[n] = AamdOrder[n]
    /\ (AamdInFlight /\ InLog("store_inverse")) =>
          locals = rive_rs_artboard_instance_transforms(
                       Scene_width(scene), Scene_height(scene),
                       viewport.width, viewport.height)
    /\ (AamdInFlight /\ InLog("advance_and_apply")) =>
          viewport.inverse_view_transform =
              rive_rs_artboard_instance_transforms(
                  Scene_width(scene), Scene_height(scene),
                  viewport.width, viewport.height).inverse_view_transform

\* C3 witness: a call that began with the inverse an earlier call stored for
\* another size (the viewport was resized since) has run advance_and_apply
\* and drawn, with the new inverse on the viewport.
C3_Witness ==
    /\ InLog("advance_and_apply") /\ InLog("state_pop")
    /\ entry.inverse # Zero6
    /\ entry.inverse # viewport.inverse_view_transform
    /\ viewport.width = 200

\* C4: a draw call on a Scene, direct or inside advance_and_maybe_draw,
\* returns with the renderer's state-stack depth it was entered with, and the
\* depth is never below the depth at entry while the call runs.
C4_DrawBalanced ==
    /\ pc = "engine_draw" => depth >= entry.draw
    /\ pc = "draw_return" => depth = entry.draw
    /\ AamdInFlight => depth >= entry.aamd
    /\ pc = "return" => depth = entry.aamd

\* C4 witness: advance_and_maybe_draw is about to return, entered at a
\* depth above zero, after a draw in which the engine saved and restored.
C4_Witness ==
    /\ pc = "return"
    /\ entry.aamd > 0
    /\ depth = entry.aamd
    /\ InLog("draw")

\* C9 (the claim as stated): name() on an Artboard whose name bytes are not
\* valid UTF-8 reports a recoverable encoding error, does not panic, and
\* leaves the Artboard usable.
C9_NameReportsEncodingError ==
    (last_call.op = "name" /\ ~from_utf8_ok(rive_rs_component_name(scene)))
        => last_call.result = "Err" /\ fault = "none"

\* How often a statement occurs in the log of the latest call.
Calls(stmt) == Cardinality({n \in 1..Len(call_log) : call_log[n] = stmt})

\* C14: a call of advance_and_maybe_draw that has returned has called
\* advance_and_apply exactly once and draw exactly once and has returned true,
\* whatever advance_and_apply returned; while it runs neither is called twice.
C14_AdvanceOnceDrawOnceTrue ==
    /\ Calls("advance_and_apply") <= 1 /\ Calls("draw") <= 1
    /\ entry.ret # "none" =>
          /\ Calls("advance_and_apply") = 1
          /\ Calls("draw") = 1
          /\ entry.changed \in {"true", "false"}
          /\ entry.ret = "true"

\* C14 witness: a call has returned to the host after the engine's draw
\* saved and restored the renderer state.
C14_Witness ==
    /\ pc = "idle"
    /\ entry.ret = "true"
    /\ InLog("draw") /\ InLog("state_pop")
    /\ viewport.width = 100

\* A 2x3 affine transform [a, b, c, d, tx, ty] applied to the point p.
Apply(t, p) ==
    <<RAdd(RAdd(RMul(t[1], p[1]), RMul(t[3], p[2])), t[5]),
      RAdd(RAdd(RMul(t[2], p[1]), RMul(t[4], p[2])), t[6])>>

TestPoints == {<<RInt(x), RInt(y)>> : x \in {-10, 0, 1, 50}, y \in {0, 1, 25}}

C11_OneShotNoDuration ==
    /\ last_call.op = "loop" => last_call.result = "OneShot"
    /\ last_call.op = "duration" => last_call.result = "None"

\* C11 witness: the loop mode was asked for after a whole call of
\* advance_and_maybe_draw (advance and draw included) on a resized viewport.
C11_Witness ==
    /\ last_call.op = "loop"
    /\ pc = "idle"
    /\ InLog("advance_and_apply") /\ InLog("state_pop")
    /\ viewport.width = 200

\* ------------------------------------------- Spec: the viewer's event loop
SCROLL_FACTOR_THRESHOLD == 100

\* The files a user drops on the window, and the cursor positions reported.
DroppedAssets == {1, 2, 3, 4}
CursorPositions == {<<50, 25>>}
WheelDeltas ==
    {[tag |-> "LineDelta", y |-> y] : y \in {-1, 0, 1}}
    \cup {[tag |-> "PixelDelta", y |-> y] : y \in {-100, 100}}

\* f64::signum: 1.0 for +0.0 and above, -1.0 below.
Signum(x) == IF x < 0 THEN -1 ELSE 1
Max(a, b) == IF a > b THEN a ELSE b

\* Box::<dyn Scene>::instantiate(&artboard, Handle::Default): a Scene backed
\* by the artboard's default state machine, None when it has none.
Scene_instantiate_ok(asset, raw) == asset.artboards[raw].has_sm

\* .unwrap_or_else(|| Box::new(artboard)): the state-machine Scene when there
\* is one, else the Artboard itself.
dropped_file_scene_AlwaysBare(sm_ok, a, c, raw) ==
    [kind |-> "artboard", art |-> a, asset |-> c, raw |-> raw]

dropped_file_scene(sm_ok, a, c, raw) ==
    [kind |-> IF sm_ok THEN "state_machine" ELSE "artboard",
     art |-> a, asset |-> c, raw |-> raw]

\* The strong counts and release counts, as one value the drops act on.
Heap == [file_rc |-> file_rc, file_released |-> file_released,
         art_rc |-> art_rc, art_released |-> art_released]

\* drop(Arc<FileInner>) run to completion on one thread.
DropFileRef(hp, f) ==
    LET prev == hp.file_rc[f]
        hp1 == [hp EXCEPT !.file_rc[f] = ArcDrop(prev)]
    IN  IF FileInner_dropped(prev)
        THEN [hp1 EXCEPT !.file_released[f] = @ + 1]
        ELSE hp1

\* drop(Arc<ArtboardInner>) run to completion on one thread: ArtboardInner's
\* Drop first, then its field _file.
DropArtRef(hp, a) ==
    LET prev == hp.art_rc[a]
        hp1 == [hp EXCEPT !.art_rc[a] = ArcDrop(prev)]
    IN  IF ArtboardInner_dropped(prev)
        THEN DropFileRef([hp1 EXCEPT !.art_released[a] = @ + 1], art_file[a])
        ELSE hp1

\* drop(Option<Box<dyn Scene>>): either kind of Scene holds one reference
\* to its ArtboardInner.
DropScene_Forgotten(hp, sn) == hp

DropScene(hp, sn) == IF sn.kind = "none" THEN hp ELSE DropArtRef(hp, sn.art)

SetHeap(hp) ==
    /\ file_rc' = hp.file_rc
    /\ file_released' = hp.file_released
    /\ art_rc' = hp.art_rc
    /\ art_released' = hp.art_released

Init ==
    /\ InitOwnVars(MaxLoads, MaxLoads)
    /\ InitHeld(MaxLoads, MaxLoads)
    /\ last_call = NoCall
    /\ fault = "none"
    /\ InitSceneVars
    /\ InitDriverVars

\* The event loop hands the closure one event at a time, until Exit.
\* last_call is the call the handler of the latest event made on the Scene
\* (NoCall when it made none).
Dispatching == Running /\ pc = "idle" /\ control_flow # "Exit"

\* let Some(render_state) = &mut render_state else { return; }: a window
\* event reaches the match on the event only while render_state is Some.
window_event_handled_Always(rs) == TRUE

window_event_handled(rs) == rs.some

\* The handler returned at the guard, having called nothing.
Ignored == [NoCall EXCEPT !.op = "ignored"]

\* Event::WindowEvent while render_state is None: the handler returns.
WindowEventIgnored ==
    /\ Dispatching
    /\ ~window_event_handled(render_state)
    /\ last_call' = Ignored
    /\ UNCHANGED <<own_vars, held_vars, fault, scene_vars, driver_vars>>

\* WindowEvent::CloseRequested.
CloseRequested ==
    /\ Dispatching /\ window_event_handled(render_state)
    /\ last_call' = NoCall
    /\ control_flow' = "Exit"
    /\ UNCHANGED <<own_vars, held_vars, fault, scene_vars, render_state,
                   cached_window, renderer, windows_built, mouse_pos, scroll_delta,
                   h, j, k, loop_i, loop_j>>

\* WindowEvent::Resized(size).
Resized(sz) ==
    /\ Dispatching /\ window_event_handled(render_state)
    /\ last_call' = NoCall
    /\ viewport' = Viewport_resize(viewport, sz[1], sz[2])
    /\ UNCHANGED <<own_vars, held_vars, fault, scene, depth, pc, stack,
                   call_log, entry, locals, driver_vars>>

\* scene.pointer_down / pointer_move / pointer_up(x, y, &viewport): the call
\* the Scene receives, with the viewport as it is at that moment.
ScenePointer(kind) == SceneDid(kind, "Ok")

\* WindowEvent::MouseInput: the left button sends pointer_down / pointer_up
\* to the Scene, if there is one; any other button falls through.
MouseInput(state, button) ==
    /\ Dispatching /\ window_event_handled(render_state)
    /\ last_call' = IF button = "Left" /\ scene.kind # "none"
                    THEN ScenePointer(IF state = "Pressed" THEN "pointer_down"
                                      ELSE "pointer_up")
                    ELSE NoCall
    /\ UNCHANGED <<own_vars, held_vars, fault, scene_vars, driver_vars>>

\* WindowEvent::CursorMoved { position }.
CursorMoved(position) ==
    /\ Dispatching /\ window_event_handled(render_state)
    /\ mouse_pos' = position
    /\ last_call' = IF scene.kind # "none" THEN ScenePointer("pointer_move")
                    ELSE NoCall
    /\ UNCHANGED <<own_vars, held_vars, fault, scene_vars, render_state,
                   cached_window, renderer, windows_built, scroll_delta,
                   h, j, k, control_flow, loop_i, loop_j>>

\* WindowEvent::MouseWheel { delta }.
MouseWheel_scroll(delta) ==
    IF delta.tag = "LineDelta"
    THEN Max(scroll_delta - Signum(delta.y) * SCROLL_FACTOR_THRESHOLD, 0)
    ELSE Max(scroll_delta - delta.y, 0)

MouseWheel(delta) ==
    /\ Dispatching /\ window_event_handled(render_state)
    /\ last_call' = NoCall
    /\ MouseWheel_scroll(delta) <= MaxScroll * SCROLL_FACTOR_THRESHOLD
    /\ scroll_delta' = MouseWheel_scroll(delta)
    /\ UNCHANGED <<own_vars, held_vars, fault, scene_vars, render_state,
                   cached_window, renderer, windows_built, mouse_pos,
                   h, j, k, control_flow, loop_i, loop_j>>

\* WindowEvent::DroppedFile(path): the bytes of the file are the asset c.
DroppedFile(c) ==
    /\ Dispatching /\ window_event_handled(render_state)
    /\ last_call' = NoCall
    /\ HasFreeFile /\ HasFreeArt
    /\ LET f == NextFile
           a == NextArt
           raw == instantiate_raw(Assets[c], [tag |-> "Default"])
           \* let file = File::new(..)
           hp0 == [Heap EXCEPT !.file_rc[f] = 1]
           \* let artboard = Artboard::instantiate(&file, Handle::Default)
           hp1 == [hp0 EXCEPT !.file_rc[f] = instantiate_file_rc(@, raw)]
       IN  IF ~File_new_ok(Assets[c])
           THEN \* File::new(..).unwrap() on None
                /\ fault' = "panic: File::new(..).unwrap() on a None value"
                /\ UNCHANGED <<own_vars, scene>>
           ELSE IF instantiate_result(raw) = "None"
           THEN \* Artboard::instantiate(..).unwrap() on None; unwinding drops file
                /\ fault' = "panic: Artboard::instantiate(..).unwrap() on a None value"
                /\ file_asset' = [file_asset EXCEPT ![f] = c]
                /\ SetHeap(DropFileRef(hp1, f))
                /\ UNCHANGED <<art_file, art_raw, art_clones, scene>>
           ELSE LET sm_ok == Scene_instantiate_ok(Assets[c], raw)
                    \* the Artboard's Arc; a state-machine Scene clones it and
                    \* the Artboard, left in the unused closure, is dropped
                    hp2 == [hp1 EXCEPT !.art_rc[a] = 1]
                    hp3 == IF sm_ok
                           THEN [hp2 EXCEPT !.art_rc[a] = ArcDrop(ArcClone(@))]
                           ELSE hp2
                    \* file goes out of scope at the end of the block; then
                    \* scene = Some(..) drops the old Scene
                    hp5 == DropFileRef(hp3, f)
                IN  /\ fault' = fault
                    /\ file_asset' = [file_asset EXCEPT ![f] = c]
                    /\ art_file' = [art_file EXCEPT ![a] = f]
                    /\ art_raw' = [art_raw EXCEPT ![a] = raw]
                    /\ art_clones' = [art_clones EXCEPT ![a] = sm_ok]
                    /\ SetHeap(DropScene(hp5, scene))
                    /\ scene' = dropped_file_scene(sm_ok, a, c, raw)
    /\ UNCHANGED <<held_vars, viewport, depth, pc, stack, call_log, entry,
                   locals, driver_vars>>

\* WindowEvent::KeyboardInput, a key pressed: H, J and K count, others do not.
KeyboardInput(key) ==
    /\ Dispatching /\ window_event_handled(render_state)
    /\ last_call' = NoCall
    /\ key \in {"H", "J", "K"} => h + j + k < MaxKeys
    /\ h' = IF key = "H" THEN h + 1 ELSE h
    /\ j' = IF key = "J" THEN j + 1 ELSE j
    /\ k' = IF key = "K" THEN k + 1 ELSE k
    /\ UNCHANGED <<own_vars, held_vars, fault, scene_vars, render_state,
                   cached_window, renderer, windows_built, mouse_pos, scroll_delta,
                   control_flow, loop_i, loop_j>>

\* Event::MainEventsCleared: request_redraw on the window, if there is one.
MainEventsCleared ==
    /\ Dispatching
    /\ last_call' = NoCall
    /\ UNCHANGED <<own_vars, held_vars, fault, scene_vars, driver_vars>>

\* Event::RedrawRequested: a fresh rive_rs::Renderer, then either return
\* (no render_state), or the instance loop over the Scene, or the empty frame.
RedrawRequested ==
    /\ Dispatching
    /\ last_call' = NoCall
    /\ depth' = 0
    /\ IF ~render_state.some
       THEN UNCHANGED <<pc, loop_i, loop_j>>
       ELSE /\ loop_i' = 0
            /\ loop_j' = 0
            /\ pc' = IF scene.kind # "none" THEN "drv_instance" ELSE "drv_render"
    /\ UNCHANGED <<own_vars, held_vars, fault, scene, viewport, stack,
                   call_log, entry, locals, render_state, cached_window, renderer,
                   windows_built, mouse_pos, scroll_delta, h, j, k, control_flow>>

\* The loop body up to the call: rive_renderer.transform(&[1, 0, 0, 1,
\* (i - h) * spacing, (j - k) * spacing]), then scene.advance_and_maybe_draw(..).
DrvInstance ==
    /\ Running /\ pc = "drv_instance"
    /\ CallAamd("drv_state_pop")
    /\ UNCHANGED <<own_vars, held_vars, last_call, fault, scene, viewport, depth,
                   driver_vars>>

\* rive_renderer.state_pop(), and the step of the two for loops:
\* for j in 0..(k + 1 + j) { for i in 0..(h * 2 + 1) { .. } }.
DrvStatePop ==
    /\ Running /\ pc = "drv_state_pop"
    /\ depth' = depth - 1
    /\ IF loop_i + 1 < h * 2 + 1
       THEN /\ loop_i' = loop_i + 1
            /\ loop_j' = loop_j
            /\ pc' = "drv_instance"
       ELSE IF loop_j + 1 < k + 1 + j
       THEN /\ loop_i' = 0
            /\ loop_j' = loop_j + 1
            /\ pc' = "drv_instance"
       ELSE /\ UNCHANGED <<loop_i, loop_j>>
            /\ pc' = "drv_render"
    /\ UNCHANGED <<own_vars, held_vars, last_call, fault, scene, viewport, stack,
                   call_log, entry, locals, render_state, cached_window, renderer,
                   windows_built, mouse_pos, scroll_delta, h, j, k, control_flow>>

\* renderer.as_mut().unwrap().render_to_surface_async(..), present.
DrvRender ==
    /\ Running /\ pc = "drv_render"
    /\ pc' = "idle"
    /\ fault' = IF renderer THEN fault
                ELSE "panic: renderer.as_mut().unwrap() on a None value"
    /\ UNCHANGED <<own_vars, held_vars, last_call, scene, viewport, depth, stack,
                   call_log, entry, locals, driver_vars>>

\* Event::Suspended.
Suspended ==
    /\ Dispatching
    /\ last_call' = NoCall
    /\ IF render_state.some
       THEN /\ cached_window' = render_state.window
            /\ render_state' = NoRenderState
       ELSE UNCHANGED <<cached_window, render_state>>
    /\ control_flow' = "Wait"
    /\ UNCHANGED <<own_vars, held_vars, fault, scene_vars, renderer,
                   windows_built, mouse_pos, scroll_delta, h, j, k, loop_i, loop_j>>

\* renderer = Some(Renderer::new(..).expect("Could create renderer")), in the
\* block that builds the new render_state.
Resumed_renderer_Kept(prev) == prev

Resumed_renderer(prev) == TRUE

\* cached_window.take().unwrap_or_else(|| WindowBuilder::new()..build(..)):
\* the closure builds a window only when there is no cached one.
Resumed_builds_Eagerly(cached) == TRUE

Resumed_builds(cached) == cached = 0

\* Event::Resumed.
Resumed ==
    /\ Dispatching
    /\ last_call' = NoCall
    /\ IF render_state.some
       THEN UNCHANGED <<render_state, cached_window, renderer, windows_built, control_flow>>
       ELSE /\ render_state' =
                   [some |-> TRUE,
                    window |-> IF Resumed_builds(cached_window)
                               THEN windows_built + 1
                               ELSE cached_window]
            /\ windows_built' = IF Resumed_builds(cached_window)
                                THEN windows_built + 1
                                ELSE windows_built
            /\ cached_window' = 0
            /\ renderer' = Resumed_renderer(renderer)
            /\ control_flow' = "Poll"
    /\ UNCHANGED <<own_vars, held_vars, fault, scene_vars, mouse_pos,
                   scroll_delta, h, j, k, loop_i, loop_j>>

Next ==
    \/ WindowEventIgnored
    \/ CloseRequested
    \/ \E sz \in SurfaceSizes : Resized(sz)
    \/ \E state \in {"Pressed", "Released"}, button \in {"Left", "Right"} : MouseInput(state, button)
    \/ \E position \in CursorPositions : CursorMoved(position)
    \/ \E delta \in WheelDeltas : MouseWheel(delta)
    \/ \E c \in DroppedAssets : DroppedFile(c)
    \/ \E key \in {"H", "J", "K", "Other"} : KeyboardInput(key)
    \/ MainEventsCleared
    \/ RedrawRequested
    \/ DrvInstance
    \/ DrvStatePop
    \/ DrvRender
    \/ Suspended
    \/ Resumed
    \/ SceneSteps

Spec == Init /\ [][Next]_vars

\* ------------------------------------------------ claims on the event loop
InFrame == pc # "idle"

\* The artboard instantiated last.
LatestArt == CHOOSE a \in ArtIds : art_file[a] # 0 /\ \A b \in ArtIds : art_file[b] # 0 => b <= a

PointerOps == {"pointer_down", "pointer_move", "pointer_up"}

\* The latest event was handed to the active Scene as a pointer event.
PointerDispatched == last_call.op \in PointerOps

\* The inverse of the fit of the active Scene into the viewport as it is now.
CurrentInverse ==
    rive_rs_artboard_instance_transforms(
        Scene_width(scene), Scene_height(scene),
        viewport.width, viewport.height).inverse_view_transform

\* C5 (the claim as stated): over a frame every state_pop on the renderer is
\* matched by an earlier, still unmatched state_push: the depth of the state
\* stack is never below its depth at the start of the frame (0, the renderer
\* of the frame being new) and is back at it when the instance loop is done.
C5_FrameStackBalanced ==
    InFrame => /\ depth >= 0
               /\ pc = "drv_render" => depth = 0

\* C12 (the claim as stated): whenever the driver dispatches pointer_down,
\* pointer_move or pointer_up to the active Scene, the viewport's cached
\* inverse_view_transform is the inverse of the fit of that Scene's intrinsic
\* size into the viewport's current width and height, never the one of an
\* earlier size or of an earlier Scene.  (Stated for a viewport with positive
\* width and height, where the fit is defined.)
C12_PointerSeesCurrentInverse ==
    (PointerDispatched /\ viewport.width > 0 /\ viewport.height > 0)
        => viewport.inverse_view_transform = CurrentInverse

\* C13: a successful DroppedFile replaces the active Scene wholesale.  While
\* the driver runs, the Scene it holds is the one of the latest file dropped,
\* held by exactly one reference, and keeps its artboard and its File
\* unreleased; the artboard and the File of every earlier Scene have each been
\* released exactly once.  So the only unreleased resources are those of the
\* active Scene.
C13_SceneReplacedWholesale ==
    Running =>
        /\ \A a \in ArtIds : ArtCreated(a) =>
              IF scene.kind # "none" /\ scene.art = a
              THEN a = LatestArt /\ art_rc[a] = 1 /\ art_released[a] = 0
              ELSE art_rc[a] = 0 /\ art_released[a] = 1
        /\ \A f \in FileIds : FileCreated(f) =>
              IF scene.kind # "none" /\ art_file[scene.art] = f
              THEN file_rc[f] = 1 /\ file_released[f] = 0
              ELSE file_rc[f] = 0 /\ file_released[f] = 1
        /\ scene.kind = "none" => \A a \in ArtIds : ~ArtCreated(a)

\* C13 witness: a second file was dropped on a driver that had a Scene: the
\* new Scene is active and unreleased, the artboard and the File of the old
\* one were released once.
C13_Witness ==
    /\ Running
    /\ scene.kind # "none" /\ scene.art = 2
    /\ art_released[2] = 0 /\ file_released[art_file[2]] = 0
    /\ art_released[1] = 1 /\ file_released[art_file[1]] = 1

\* C17: over any sequence of Resumed, Suspended, RedrawRequested and window
\* events the GPU renderer is present whenever render_state is present, so a
\* frame that got past the render_state check never panics on
\* renderer.as_mut().unwrap().
C17_RendererWithRenderState ==
    /\ render_state.some => renderer
    /\ fault # "panic: renderer.as_mut().unwrap() on a None value"

\* C17 witness: a frame has got past the render_state check and the instance
\* loop and is at renderer.as_mut().unwrap(), with the renderer present.
C17_Witness ==
    /\ pc = "drv_render"
    /\ render_state.some /\ renderer
    /\ scene.kind # "none"
    /\ fault = "none"

\* C18: render_state and cached_window are never both present, and once the
\* window has been created (there is only ever one) exactly one of them
\* holds it.  Suspended moves the window from render_state to cached_window,
\* Resumed moves it back and builds a window only when cached_window is
\* empty; a Resumed received while render_state is present changes nothing.
C18_WindowHeldOnce ==
    /\ [](/\ ~(render_state.some /\ cached_window # 0)
          /\ windows_built \in {0, 1}
          /\ windows_built = 0 => ~render_state.some /\ cached_window = 0
          /\ windows_built = 1 =>
                (render_state.some /\ render_state.window = 1) \/ cached_window = 1)
    /\ [][(Suspended /\ render_state.some) =>
              /\ ~render_state'.some
              /\ cached_window' = render_state.window]_vars
    /\ [][(Resumed /\ ~render_state.some) =>
              /\ render_state'.some /\ cached_window' = 0
              /\ cached_window # 0 =>
                    render_state'.window = cached_window /\ UNCHANGED windows_built
              /\ cached_window = 0 => windows_built' = windows_built + 1]_vars
    /\ [][(Resumed /\ render_state.some) =>
              UNCHANGED <<own_vars, held_vars, fault, scene_vars, driver_vars>>]_vars

\* C18 witness: the window was created, and Suspended has moved it from
\* render_state to cached_window while a Scene is loaded.
C18_Witness ==
    /\ windows_built = 1
    /\ ~render_state.some
    /\ cached_window = 1
    /\ control_flow = "Wait"
    /\ scene.kind # "none"

\* Event::WindowEvent { event, .. }: one step of any of the window events.
WindowEvent ==
    \/ WindowEventIgnored
    \/ CloseRequested
    \/ \E sz \in SurfaceSizes : Resized(sz)
    \/ \E state \in {"Pressed", "Released"}, button \in {"Left", "Right"} : MouseInput(state, button)
    \/ \E position \in CursorPositions : CursorMoved(position)
    \/ \E delta \in WheelDeltas : MouseWheel(delta)
    \/ \E c \in DroppedAssets : DroppedFile(c)
    \/ \E key \in {"H", "J", "K", "Other"} : KeyboardInput(key)

\* C19: while render_state is absent (before the first Resumed, or between
\* Suspended and the next Resumed) a window event changes nothing: viewport,
\* active Scene, mouse position, scroll delta, the counters h, j, k, the
\* control flow and the resources are as before the event, no Scene
\* operation is invoked and no frame is started.
C19_WindowEventsIgnored ==
    [][(~render_state.some /\ WindowEvent) =>
          /\ UNCHANGED <<own_vars, held_vars, fault, scene_vars, driver_vars>>
          /\ last_call' = Ignored]_vars

\* C19 witness: between Suspended and the next Resumed, with a Scene loaded,
\* the viewport resized and keys counted, a window event was ignored.
C19_Witness ==
    /\ last_call = Ignored
    /\ ~render_state.some /\ cached_window # 0
    /\ scene.kind # "none"
    /\ viewport.width = 200
    /\ mouse_pos = <<50, 25>>
    /\ h + j + k > 0

\* C8 (the claim as stated): a dropped file that gives no File, or a File
\* with no default Artboard, is handled by the caller and is no fault: the
\* driver goes on.
C8_AbsenceIsNoFault ==
    fault \notin {"panic: File::new(..).unwrap() on a None value",
                  "panic: Artboard::instantiate(..).unwrap() on a None value"}

\* C10: the Scene a dropped file installs is built on the file's default
\* Artboard: the state-machine Scene when instantiating it gives Some, and
\* otherwise the bare Artboard itself (the same ArtboardInner, which the
\* Scene alone now holds), so with the Artboard's width, height and name.
C10_FallbackIsBareArtboard ==
    scene.kind # "none" =>
        LET ab == Assets[scene.asset].artboards[instantiate_raw(Assets[scene.asset], [tag |-> "Default"])]
        IN  /\ scene.art = LatestArt
            /\ file_asset[art_file[scene.art]] = scene.asset
            /\ art_raw[scene.art] = scene.raw
            /\ SceneArtboard(scene) = ab
            /\ Scene_instantiate_ok(Assets[scene.asset], scene.raw) <=> scene.kind = "state_machine"
            /\ ~Scene_instantiate_ok(Assets[scene.asset], scene.raw) =>
                  /\ scene.kind = "artboard"
                  /\ Scene_width(scene) = ab.width
                  /\ Scene_height(scene) = ab.height
                  /\ rive_rs_component_name(scene) = ab.name

\* C10 witness: a file whose default Artboard has no state machine was
\* dropped, and the bare Artboard is the Scene.
C10_Witness ==
    /\ scene.kind = "artboard"
    /\ ~SceneArtboard(scene).has_sm
    /\ art_rc[scene.art] = 1

====
